---- MODULE Spec2Model ----
(***************************************************************************)
(* express_rs: the router (src/router.rs), its path matcher               *)
(* (src/router/middleware.rs) and the route handle (src/router/route.rs). *)
(*                                                                         *)
(* A string is a sequence of one-character strings, so that split_path    *)
(* and parse_segments are computed on characters as the code does.        *)
(* Option<T> is a sequence of length 0 (None) or 1 (Some).                *)
(* The matcher behind Router.middleware_matcher and Router.routes is the  *)
(* trie that this repository defines, MiddlewareRouter: all_matches is    *)
(* get_all_matches, at is at, and at_mut is the lookup of at with write   *)
(* access to the leaf found.                                              *)
(***************************************************************************)
EXTENDS Integers, Sequences, FiniteSets, TLC

VARIABLES
    stack,               \* Router.stack: Vec<Layer>
    middleware_matcher,  \* Router.middleware_matcher: the root Node
    routes,              \* Router.routes: Method -> root Node
    route_handle,        \* the &mut Route returned by route() is still borrowed
    panicked,            \* an expect() failed while registering
    pc,                  \* "idle" (building), "ready" (serving), "exec" and "done" (in handle)
    req,                 \* the request in flight: method and path
    req_params,          \* the request's RouteParams extension (Option)
    matched,             \* handle(): the merged indices, after dedup and sort
    li,                  \* handle(): position of the outer loop in matched
    hi,                  \* handle(): position in the route's stack (0: the layer's own handler)
    path_method_matched, \* handle(): the flag of the same name
    invoked,             \* the handler invocations of this request, in order
    fallback,            \* the dispatcher's own response: 0 (none), 404, 405
    router_root,         \* a MiddlewareRouter used on its own: its root Node
    inserted,            \* the insert() calls made on it: path, result, effect
    lookup,              \* the last path looked up in it (Option)
    interner,            \* INTERNER: forward map, reverse Vec and counter
    handled,             \* the handle() calls recorded: request, matched layers, parameters
    threads,             \* the threads that use INTERNER concurrently: each one's position and locals
    write_lock,          \* the thread inside INTERNER.write() of router.rs (Option)
    clock,               \* Instant::now(), in ticks
    limiter,             \* the RateLimitMiddleware (Option): its two settings and its store
    calls,               \* the RateLimitMiddleware::call in progress in each thread
    passed,              \* the requests let through, counted per client key and window
    sessions,            \* SessionTokenValidator.sessions: token -> SessionData
    added,               \* token -> the user and expiry of its last add_session call
    validated,           \* the last validate_token call: token, time and result (Option)
    cleaned,             \* the last cleanup_expired_sessions call: time, sessions before it
    auth,                \* the AuthMiddleware built: config, protected routes, validator (Option)
    auth_call            \* the last AuthMiddleware::call: request and what it did (Option)

vars == <<stack, middleware_matcher, routes, route_handle, panicked, pc, req,
          req_params, matched, li, hi, path_method_matched, invoked, fallback,
          router_root, inserted, lookup, interner, handled, threads, write_lock,
          clock, limiter, calls, passed, sessions, added, validated, cleaned,
          auth, auth_call>>

limiterVars == <<limiter, calls, passed>>
sessionVars == <<sessions, added, validated, cleaned>>
authVars == <<auth, auth_call>>
expressVars == <<clock, limiterVars, sessionVars, authVars>>

threadVars == <<threads, write_lock>>

matcherVars == <<router_root, inserted, lookup>>
routerVars == <<stack, middleware_matcher, routes>>
handleVars == <<req, req_params, matched, li, hi, path_method_matched, invoked, fallback>>

-----------------------------------------------------------------------------
(* Bounds of the model *)

MaxLayers == 2
MaxHandlers == 2

-----------------------------------------------------------------------------
(* Option and map helpers *)

None == <<>>
Some(x) == <<x>>

EmptyMap == <<>>
MapInsert(m, k, v) == [x \in (DOMAIN m) \cup {k} |-> IF x = k THEN v ELSE m[x]]
MapRemove(m, k) == [x \in (DOMAIN m) \ {k} |-> m[x]]

-----------------------------------------------------------------------------
(* str helpers *)

Contains(s, c) == \E i \in 1..Len(s) : s[i] = c
Find(s, c) == CHOOSE i \in 1..Len(s) : s[i] = c /\ \A j \in 1..(i - 1) : s[j] # c
StartsWith(s, p) == Len(s) >= Len(p) /\ SubSeq(s, 1, Len(p)) = p
EndsWith(s, p) == Len(s) >= Len(p) /\ SubSeq(s, Len(s) - Len(p) + 1, Len(s)) = p

RECURSIVE TrimStart(_)
TrimStart(s) == IF s # <<>> /\ Head(s) = "/" THEN TrimStart(Tail(s)) ELSE s

RECURSIVE TrimEnd(_)
TrimEnd(s) ==
    IF s # <<>> /\ s[Len(s)] = "/" THEN TrimEnd(SubSeq(s, 1, Len(s) - 1)) ELSE s

TrimMatches(s) == TrimEnd(TrimStart(s))

RECURSIVE SplitFrom(_, _, _)
SplitFrom(s, cur, acc) ==
    IF s = <<>> THEN Append(acc, cur)
    ELSE IF Head(s) = "/" THEN SplitFrom(Tail(s), <<>>, Append(acc, cur))
    ELSE SplitFrom(Tail(s), Append(cur, Head(s)), acc)

Split(s) == SplitFrom(s, <<>>, <<>>)

RECURSIVE Join(_)
Join(segments) ==
    IF segments = <<>> THEN <<>>
    ELSE IF Len(segments) = 1 THEN segments[1]
    ELSE segments[1] \o <<"/">> \o Join(Tail(segments))

NonEmpty(s) == s # <<>>

split_path(path) == SelectSeq(Split(TrimMatches(path)), NonEmpty)

-----------------------------------------------------------------------------
(* Segment and parse_segments *)

Segment(kind, s, prefix, suffix) ==
    [kind |-> kind, s |-> s, prefix |-> prefix, suffix |-> suffix]

Static(s) == Segment("Static", s, <<>>, <<>>)
Param(p) == Segment("Param", p, <<>>, <<>>)
ParamCatchAll(p) == Segment("ParamCatchAll", p, <<>>, <<>>)
Mixed(prefix, param, suffix) == Segment("Mixed", param, prefix, suffix)
Wildcard == Segment("Wildcard", <<>>, <<>>, <<>>)

(* One iteration of the loop of parse_segments: "Ok" with the segment,    *)
(* "Err" (empty parameter), or "Panic" (the slice part[start+1..end] with *)
(* '}' before '{').                                                        *)
ParsePart(part) ==
    IF part = <<"*">> THEN [status |-> "Ok", segment |-> Wildcard]
    ELSE IF StartsWith(part, <<"{", "{">>) /\ EndsWith(part, <<"}", "}">>)
    THEN [status |-> "Ok", segment |-> Static(SubSeq(part, 2, Len(part) - 1))]
    ELSE IF Contains(part, "{") /\ Contains(part, "}")
    THEN LET start == Find(part, "{")
             end == Find(part, "}")
             prefix == SubSeq(part, 1, start - 1)
             param_section == SubSeq(part, start + 1, end - 1)
             suffix == SubSeq(part, end + 1, Len(part))
         IN  IF end < start THEN [status |-> "Panic", segment |-> Wildcard]
             ELSE IF param_section = <<>> THEN [status |-> "Err", segment |-> Wildcard]
             ELSE IF prefix = <<>> /\ suffix = <<>>
             THEN IF Head(param_section) = "*"
                  THEN [status |-> "Ok", segment |-> ParamCatchAll(Tail(param_section))]
                  ELSE [status |-> "Ok", segment |-> Param(param_section)]
             ELSE [status |-> "Ok", segment |-> Mixed(prefix, param_section, suffix)]
    ELSE [status |-> "Ok", segment |-> Static(part)]

RECURSIVE ParseParts(_, _)
ParseParts(parts, segments) ==
    IF parts = <<>> THEN [status |-> "Ok", segments |-> segments]
    ELSE LET r == ParsePart(Head(parts))
         IN  IF r.status # "Ok" THEN [status |-> r.status, segments |-> <<>>]
             ELSE ParseParts(Tail(parts), Append(segments, r.segment))

parse_segments(path) == ParseParts(split_path(path), <<>>)

-----------------------------------------------------------------------------
(* Node and MiddlewareRouter *)

DefaultNode ==
    [children |-> EmptyMap, param |-> None, catch_all |-> None,
     wildcard |-> None, value |-> None]

Edge(name, node) == [name |-> name, node |-> node]

Match(value, params) == [value |-> value, params |-> params]

(* current.value.get_or_insert(vec![]).push(index) *)
PushValue(node, index) ==
    [node EXCEPT !.value =
        Some(Append(IF node.value = None THEN <<>> ELSE node.value[1], index))]

(* get_or_insert_with(|| (p.clone(), Box::new(Node::default()))) *)
GetOrInsertEdge(slot, p) == IF slot = None THEN Edge(p, DefaultNode) ELSE slot[1]

(* The loop of insert over the parsed segments, then the push at the leaf. *)
(* The node is returned also when a Mixed segment ends the insert with    *)
(* Err: the edges created before it stay in the trie.                     *)
RECURSIVE InsertSegments(_, _, _)
InsertSegments(current, segments, index) ==
    IF segments = <<>> THEN [status |-> "Ok", node |-> PushValue(current, index)]
    ELSE
    LET segment == Head(segments)
        rest == Tail(segments)
    IN  CASE segment.kind = "Static" ->
                LET child == IF segment.s \in DOMAIN current.children
                             THEN current.children[segment.s] ELSE DefaultNode
                    r == InsertSegments(child, rest, index)
                IN  [status |-> r.status,
                     node |-> [current EXCEPT
                                 !.children = MapInsert(current.children, segment.s, r.node)]]
          [] segment.kind = "Param" ->
                LET e == GetOrInsertEdge(current.param, segment.s)
                    r == InsertSegments(e.node, rest, index)
                IN  [status |-> r.status,
                     node |-> [current EXCEPT !.param = Some(Edge(e.name, r.node))]]
          [] segment.kind = "ParamCatchAll" ->
                LET e == GetOrInsertEdge(current.catch_all, segment.s)
                    r == InsertSegments(e.node, <<>>, index)
                IN  [status |-> r.status,
                     node |-> [current EXCEPT !.catch_all = Some(Edge(e.name, r.node))]]
          [] segment.kind = "Wildcard" ->
                LET w == IF current.wildcard = None THEN DefaultNode
                         ELSE current.wildcard[1]
                    r == InsertSegments(w, <<>>, index)
                IN  [status |-> r.status,
                     node |-> [current EXCEPT !.wildcard = Some(r.node)]]
          [] segment.kind = "Mixed" -> [status |-> "Err", node |-> current]

insert(root, path, index) ==
    LET p == parse_segments(path)
    IN  IF p.status # "Ok" THEN [status |-> p.status, node |-> root]
        ELSE InsertSegments(root, p.segments, index)

(* current.value.clone().map(|v| Match { value: v, params }) *)
AtResult(current, params) ==
    IF current.value = None THEN None ELSE Some(Match(current.value[1], params))

(* The loop of at; k is the 1-based position in segments. *)
RECURSIVE AtLoop(_, _, _, _)
AtLoop(current, segments, k, params) ==
    IF k > Len(segments) THEN AtResult(current, params)
    ELSE
    LET segment == segments[k]
    IN  IF segment \in DOMAIN current.children
        THEN AtLoop(current.children[segment], segments, k + 1, params)
        ELSE IF current.param # None
        THEN AtLoop(current.param[1].node, segments, k + 1,
                    MapInsert(params, current.param[1].name, segment))
        ELSE IF current.catch_all # None
        THEN AtResult(current.catch_all[1].node,
                      MapInsert(params, current.catch_all[1].name, Join(segments)))
        ELSE IF current.wildcard # None
        THEN AtResult(current.wildcard[1], params)
        ELSE None

(* The loop of at with the parameter edge tried before the static child *)
RECURSIVE AtLoopParamFirst(_, _, _, _)
AtLoopParamFirst(current, segments, k, params) ==
    IF k > Len(segments) THEN AtResult(current, params)
    ELSE
    LET segment == segments[k]
    IN  IF current.param # None
        THEN AtLoopParamFirst(current.param[1].node, segments, k + 1,
                              MapInsert(params, current.param[1].name, segment))
        ELSE IF segment \in DOMAIN current.children
        THEN AtLoopParamFirst(current.children[segment], segments, k + 1, params)
        ELSE IF current.catch_all # None
        THEN AtResult(current.catch_all[1].node,
                      MapInsert(params, current.catch_all[1].name, Join(segments)))
        ELSE IF current.wildcard # None
        THEN AtResult(current.wildcard[1], params)
        ELSE None

(* at with the parameter edge tried before the static child *)
AtParamFirst(root, path) == AtLoopParamFirst(root, split_path(path), 1, EmptyMap)

at(root, path) == AtLoop(root, split_path(path), 1, EmptyMap)

(* at_mut(path) followed by entry.value.push(index): the walk of at, and  *)
(* the push at the node it ends in. found is FALSE where at returns None. *)
RECURSIVE AtMutLoop(_, _, _, _)
AtMutLoop(current, segments, k, index) ==
    IF k > Len(segments)
    THEN [found |-> current.value # None,
          node |-> IF current.value # None THEN PushValue(current, index) ELSE current]
    ELSE
    LET segment == segments[k]
    IN  IF segment \in DOMAIN current.children
        THEN LET r == AtMutLoop(current.children[segment], segments, k + 1, index)
             IN  [found |-> r.found,
                  node |-> [current EXCEPT
                              !.children = MapInsert(current.children, segment, r.node)]]
        ELSE IF current.param # None
        THEN LET r == AtMutLoop(current.param[1].node, segments, k + 1, index)
             IN  [found |-> r.found,
                  node |-> [current EXCEPT
                              !.param = Some(Edge(current.param[1].name, r.node))]]
        ELSE IF current.catch_all # None
        THEN LET r == AtMutLoop(current.catch_all[1].node, segments,
                                Len(segments) + 1, index)
             IN  [found |-> r.found,
                  node |-> [current EXCEPT
                              !.catch_all = Some(Edge(current.catch_all[1].name, r.node))]]
        ELSE IF current.wildcard # None
        THEN LET r == AtMutLoop(current.wildcard[1], segments, Len(segments) + 1, index)
             IN  [found |-> r.found,
                  node |-> [current EXCEPT !.wildcard = Some(r.node)]]
        ELSE [found |-> FALSE, node |-> current]

AtMutPushNextIndex(root, path, index) == AtMutLoop(root, split_path(path), 1, index + 1)

at_mut_push(root, path, index) == AtMutLoop(root, split_path(path), 1, index)

(* recurse: depth is 0-based as in the code; params and matches are the   *)
(* two &mut arguments, returned as they are when the call returns.        *)
RECURSIVE recurse(_, _, _, _, _)
recurse(node, segments, depth, params, matches) ==
    IF depth = Len(segments)
    THEN [params |-> params,
          matches |-> IF node.value # None
                      THEN Append(matches, Match(node.value[1], params))
                      ELSE matches]
    ELSE
    LET segment == segments[depth + 1]
        s1 == IF segment \in DOMAIN node.children
              THEN recurse(node.children[segment], segments, depth + 1, params, matches)
              ELSE [params |-> params, matches |-> matches]
        s2 == IF node.param # None
              THEN LET name == node.param[1].name
                       r == recurse(node.param[1].node, segments, depth + 1,
                                    MapInsert(s1.params, name, segment), s1.matches)
                   IN  [params |-> MapRemove(r.params, name), matches |-> r.matches]
              ELSE s1
        s3 == IF node.wildcard # None
              THEN LET wild_node == node.wildcard[1]
                       m == IF wild_node.value # None
                            THEN Append(s2.matches, Match(wild_node.value[1], s2.params))
                            ELSE s2.matches
                   IN  recurse(wild_node, segments, Len(segments), s2.params, m)
              ELSE s2
        s4 == IF node.catch_all # None
              THEN LET name == node.catch_all[1].name
                       catch_node == node.catch_all[1].node
                       remaining == Join(SubSeq(segments, depth + 1, Len(segments)))
                       p == MapInsert(s3.params, name, remaining)
                   IN  [params |-> MapRemove(p, name),
                        matches |-> IF catch_node.value # None
                                    THEN Append(s3.matches, Match(catch_node.value[1], p))
                                    ELSE s3.matches]
              ELSE s3
    IN  s4

get_all_matches(root, path) ==
    recurse(root, split_path(path), 0, EmptyMap, <<>>).matches

-----------------------------------------------------------------------------
(* Inputs: methods, registered patterns and request paths *)

Methods == {"GET", "POST"}

PatStar == <<"*">>
PatUStar == <<"/", "u", "/", "*">>
PatUId == <<"/", "u", "/", "{", "i", "}">>
PatUJZ == <<"/", "u", "/", "{", "j", "}", "/", "z">>
PatMixed == <<"/", "a", "{", "b", "}">>

PathRoot == <<"/">>
PathU == <<"/", "u">>
PathU4 == <<"/", "u", "/", "4">>
PathU4Z == <<"/", "u", "/", "4", "/", "z">>

RoutePatterns == {PatUId, PatUJZ}
MiddlewarePatterns == {PatStar, PatUStar, PatMixed}
RequestPaths == {PathRoot, PathU, PathU4, PathU4Z}

-----------------------------------------------------------------------------
(* Route and Layer *)

(* Route::new(path) *)
NewRoute(path) == [path |-> path, stack |-> <<>>, methods |-> {}]

(* Layer::new(path, handle); route is None until route() sets it *)
NewLayer(path) == [path |-> path, route |-> None]

(* the handlers attached through route handles, over the whole stack *)
RECURSIVE AttachedHandlers(_)
AttachedHandlers(layers) ==
    IF layers = <<>> THEN 0
    ELSE (IF Head(layers).route = None THEN 0 ELSE Len(Head(layers).route[1].stack))
            + AttachedHandlers(Tail(layers))

(* Route::get, Route::post, ...: push a layer for the verb, insert the verb *)
RouteAddVerb(route, verb) ==
    [route EXCEPT !.stack = Append(@, [path |-> <<"/">>, method |-> Some(verb)]),
                  !.methods = @ \cup {verb}]

-----------------------------------------------------------------------------
(* Router::handle, the part before the loop *)

RECURSIVE FlatValues(_)
FlatValues(matches) ==
    IF matches = <<>> THEN <<>> ELSE Head(matches).value \o FlatValues(Tail(matches))

(* middleware_matcher.all_matches(path).into_iter().flat_map(|m| m.value) *)
MiddlewareIndices(path) == FlatValues(get_all_matches(middleware_matcher, path))

(* self.routes.get(method), then routes.at(path) *)
RouteMatch(method, path) ==
    IF method \in DOMAIN routes THEN at(routes[method], path) ELSE None

(* BoundParams with set_params called only when a route matched *)
BoundParamsOnlyOnMatch(method, path) ==
    LET route_match == RouteMatch(method, path)
    IN  IF route_match # None THEN Some(route_match[1].params) ELSE None

(* the argument of the set_params call that the three branches make *)
BoundParams(method, path) ==
    LET route_match == RouteMatch(method, path)
    IN  IF route_match # None THEN Some(route_match[1].params) ELSE Some(EmptyMap)

(* matched, after matched.extend(value) *)
Merged(method, path) ==
    LET route_match == RouteMatch(method, path)
    IN  MiddlewareIndices(path)
          \o (IF route_match # None THEN route_match[1].value ELSE <<>>)

(* Vec::dedup: removes consecutive repeated elements *)
RECURSIVE Dedup(_)
Dedup(s) ==
    IF Len(s) <= 1 THEN s
    ELSE IF s[1] = s[2] THEN Dedup(Tail(s))
    ELSE <<s[1]>> \o Dedup(Tail(s))

RECURSIVE InsertSorted(_, _)
InsertSorted(x, s) ==
    IF s = <<>> THEN <<x>>
    ELSE IF x <= Head(s) THEN <<x>> \o s
    ELSE <<Head(s)>> \o InsertSorted(x, Tail(s))

RECURSIVE SortUnstable(_)
SortUnstable(s) ==
    IF s = <<>> THEN <<>> ELSE InsertSorted(Head(s), SortUnstable(Tail(s)))

(* ExecutionOrder with the sort left out *)
ExecutionOrderUnsorted(m) == Dedup(m)

(* matched.dedup(); matched.sort_unstable(); *)
ExecutionOrder(m) == SortUnstable(Dedup(m))

(* The outer loop from position i up to the next handler it invokes: a    *)
(* middleware layer is invoked, a route whose stack is empty or whose     *)
(* methods lack the request's method is skipped (continue).               *)
RECURSIVE Seek(_, _, _, _)
Seek(m, i, method, pmm) ==
    IF i > Len(m) THEN [end |-> TRUE, li |-> i, hi |-> 0, pmm |-> pmm]
    ELSE
    LET layer == stack[m[i] + 1]
    IN  IF layer.route = None THEN [end |-> FALSE, li |-> i, hi |-> 0, pmm |-> pmm]
        ELSE IF layer.route[1].stack = <<>> \/ method \notin layer.route[1].methods
        THEN Seek(m, i + 1, method, pmm)
        ELSE [end |-> FALSE, li |-> i, hi |-> 1, pmm |-> TRUE]

(* NoMatch with the early return for an empty match left out *)
NoMatchIgnored(m) == FALSE

(* if matched.is_empty() *)
NoMatch(m) == m = <<>>

(* ChainStops with the flag not consulted *)
ChainNeverStops(called_next) == FALSE

(* if !called_next.load(Ordering::Relaxed) { return; } *)
ChainStops(called_next) == ~called_next

(* EndFallback with 405 written whatever path_method_matched is *)
EndFallbackAlways(pmm) == 405

(* EndFallback with no response written at the end of the loop *)
EndFallbackNone(pmm) == 0

(* if !path_method_matched { 405 } at the end of the loop *)
EndFallback(pmm) == IF pmm THEN 0 ELSE 405

-----------------------------------------------------------------------------
(* INTERNER and the symbol maps that handle stores in the request *)

DefaultInterner == [forward |-> EmptyMap, reverse |-> <<>>, counter |-> 0]

(* get_or_intern with a new symbol allocated also for a known string *)
GetOrInternFresh(in, s) ==
    [sym |-> in.counter,
     interner |-> [forward |-> MapInsert(in.forward, s, in.counter),
                   reverse |-> Append(in.reverse, s),
                   counter |-> in.counter + 1]]

(* Interner::get_or_intern(s), with exclusive access (INTERNER.write()) *)
get_or_intern(in, s) ==
    IF s \in DOMAIN in.forward THEN [sym |-> in.forward[s], interner |-> in]
    ELSE LET sym == in.counter
         IN  [sym |-> sym,
              interner |->
                 [forward |-> MapInsert(in.forward, s, sym),
                  reverse |-> IF sym >= Len(in.reverse) THEN Append(in.reverse, s)
                              ELSE [in.reverse EXCEPT ![sym + 1] = s],
                  counter |-> in.counter + 1]]

(* Interner::resolve(sym) *)
resolve(in, sym) == IF sym < Len(in.reverse) THEN Some(in.reverse[sym + 1]) ELSE None

(* the orders in which a HashMap's iter() can yield the keys of params *)
IterOrders(params) ==
    {o \in [1..Cardinality(DOMAIN params) -> DOMAIN params] :
        \A a, b \in DOMAIN o : a # b => o[a] # o[b]}

(* for (k, v) in route_match.params.iter() { get_or_intern(k);            *)
(* get_or_intern(v); params.insert(sym_k, sym_v) }                        *)
RECURSIVE InternParams(_, _, _, _)
InternParams(in, params, order, acc) ==
    IF order = <<>> THEN [params |-> acc, interner |-> in]
    ELSE LET k == get_or_intern(in, Head(order))
             v == get_or_intern(k.interner, params[Head(order)])
         IN  InternParams(v.interner, params, Tail(order), MapInsert(acc, k.sym, v.sym))

(* RouteParams::iter(): the pairs whose two symbols resolve *)
ResolveParams(in, params) ==
    IF params = None THEN None
    ELSE LET ok == {k \in DOMAIN params[1] :
                       resolve(in, k) # None /\ resolve(in, params[1][k]) # None}
         IN  Some([s \in {resolve(in, k)[1] : k \in ok} |->
                     LET k == CHOOSE k \in ok : resolve(in, k)[1] = s
                     IN  resolve(in, params[1][k])[1]])

-----------------------------------------------------------------------------
(* Threads that use INTERNER concurrently *)

MaxThreads == 2

Threads == 1..MaxThreads

(* every request binds the parameter `i`, each one to its own segment *)
ParamName == <<"i">>
SegmentValues == <<"4", "5", "6", "7">>
ThreadValue(t) == <<SegmentValues[t]>>

(* pc: where the thread is; work: the strings it has still to intern; s,  *)
(* sym: the locals of get_or_intern; returned: the calls of get_or_intern *)
(* that returned, with their results; params: the map given to            *)
(* set_params; got: the result of the last params.get(name) (Option)      *)
IdleThread ==
    [pc |-> "idle", work |-> <<>>, s |-> <<>>, sym |-> 0, returned |-> <<>>,
     params |-> None, got |-> None]

(* Interner::get(s) *)
get(in, s) == IF s \in DOMAIN in.forward THEN Some(in.forward[s]) ELSE None

(* RouteParams::get(key) on the map of one request *)
RouteParamsGet(in, params, key) ==
    IF get(in, key) = None THEN None
    ELSE IF get(in, key)[1] \notin DOMAIN params THEN None
    ELSE resolve(in, params[get(in, key)[1]])

(* no RateLimitMiddleware::call in progress *)
NoCall == [pc |-> "idle", ip |-> <<>>, now |-> 0]

-----------------------------------------------------------------------------
(* Initial state: Router::default(), no request *)

NoRequest == [method |-> "GET", path |-> <<>>]

Init ==
    /\ stack = <<>>
    /\ middleware_matcher = DefaultNode
    /\ routes = EmptyMap
    /\ route_handle = FALSE
    /\ panicked = FALSE
    /\ pc = "idle"
    /\ req = NoRequest
    /\ req_params = None
    /\ matched = <<>>
    /\ li = 0
    /\ hi = 0
    /\ path_method_matched = FALSE
    /\ invoked = <<>>
    /\ fallback = 0
    /\ router_root = DefaultNode
    /\ inserted = <<>>
    /\ lookup = None
    /\ interner = DefaultInterner
    /\ handled = <<>>
    /\ threads = [t \in Threads |-> IdleThread]
    /\ write_lock = None
    /\ clock = 0
    /\ limiter = None
    /\ calls = [t \in Threads |-> NoCall]
    /\ passed = EmptyMap
    /\ sessions = EmptyMap
    /\ added = EmptyMap
    /\ validated = None
    /\ cleaned = None
    /\ auth = None
    /\ auth_call = None

-----------------------------------------------------------------------------
(* Registration *)

(* The router is built before it serves: App::listen consumes the App, and *)
(* handle borrows the router that route and use_with need exclusively.     *)
Building == ~panicked /\ pc = "idle"

CanRegister == Building /\ Len(stack) < MaxLayers

(* Router::route(path, handle, method) *)
RouteCall(path, method) ==
    /\ Building
    /\ LET layer_index == Len(stack)
           method_routes == IF method \in DOMAIN routes THEN routes[method]
                            ELSE DefaultNode
           entry == at_mut_push(method_routes, path, layer_index)
           ins == insert(method_routes, path, layer_index)
       IN  IF entry.found
           THEN /\ routes' = MapInsert(routes, method, entry.node)
                /\ stack' = Append(stack, [NewLayer(path) EXCEPT
                                             !.route = Some(NewRoute(path))])
                /\ route_handle' = TRUE
                /\ panicked' = FALSE
           ELSE IF ins.status = "Ok"
           THEN /\ routes' = MapInsert(routes, method, ins.node)
                /\ stack' = Append(stack, [NewLayer(path) EXCEPT
                                             !.route = Some(NewRoute(path))])
                /\ route_handle' = TRUE
                /\ panicked' = FALSE
           ELSE /\ routes' = MapInsert(routes, method, ins.node)
                /\ stack' = stack
                /\ route_handle' = FALSE
                /\ panicked' = TRUE
    /\ UNCHANGED <<middleware_matcher, pc, handleVars, matcherVars, interner, handled, threadVars, expressVars>>

Route(path, method) == CanRegister /\ RouteCall(path, method)

(* Router::use_with(middleware), path = middleware.target_path() *)
UseWithCall(path) ==
    /\ Building
    /\ LET layer_index == Len(stack)
           entry == at_mut_push(middleware_matcher, path, layer_index)
           ins == insert(middleware_matcher, path, layer_index)
       IN  IF entry.found
           THEN /\ middleware_matcher' = entry.node
                /\ stack' = Append(stack, NewLayer(path))
                /\ panicked' = FALSE
           ELSE IF ins.status = "Ok"
           THEN /\ middleware_matcher' = ins.node
                /\ stack' = Append(stack, NewLayer(path))
                /\ panicked' = FALSE
           ELSE /\ middleware_matcher' = ins.node
                /\ stack' = stack
                /\ panicked' = TRUE
    /\ route_handle' = FALSE
    /\ UNCHANGED <<routes, pc, handleVars, matcherVars, interner, handled, threadVars, expressVars>>

UseWith(path) == CanRegister /\ UseWithCall(path)

(* Route::get(handler), Route::post(handler), ... on the handle that the  *)
(* last route() call returned                                             *)
RouteVerb(verb) ==
    /\ Building
    /\ route_handle
    /\ LET n == Len(stack)
           route == stack[n].route[1]
       IN  /\ AttachedHandlers(stack) < MaxHandlers
           /\ stack' = [stack EXCEPT ![n].route = Some(RouteAddVerb(route, verb))]
    /\ UNCHANGED <<middleware_matcher, routes, route_handle, panicked, pc, handleVars, matcherVars, interner, handled, threadVars, expressVars>>

-----------------------------------------------------------------------------
(* Router::handle *)

(* From the entry of handle to its first handler invocation, or to its    *)
(* return when no handler is invoked.                                     *)
HandleCall(method, path) ==
    /\ ~panicked
    /\ pc \in {"idle", "ready"}
    /\ req' = [method |-> method, path |-> path]
    /\ LET bound == BoundParams(method, path)
       IN  IF bound = None
           THEN req_params' = None /\ interner' = interner
           ELSE \E order \in IterOrders(bound[1]) :
                    LET r == InternParams(interner, bound[1], order, EmptyMap)
                    IN  req_params' = Some(r.params) /\ interner' = r.interner
    /\ invoked' = <<>>
    /\ route_handle' = FALSE
    /\ LET m == Merged(method, path)
           order == ExecutionOrder(m)
           s == Seek(order, 1, method, FALSE)
       IN  IF NoMatch(m)
           THEN /\ fallback' = 404
                /\ pc' = "done"
                /\ matched' = <<>>
                /\ li' = 0
                /\ hi' = 0
                /\ path_method_matched' = FALSE
           ELSE /\ matched' = order
                /\ li' = s.li
                /\ hi' = s.hi
                /\ path_method_matched' = s.pmm
                /\ pc' = IF s.end THEN "done" ELSE "exec"
                /\ fallback' = IF s.end THEN EndFallback(s.pmm) ELSE 0
    /\ UNCHANGED <<routerVars, panicked, matcherVars, threadVars, expressVars>>

HandleStart(method, path) == HandleCall(method, path) /\ UNCHANGED handled

(* create_next with one flag kept over the invocations of a request *)
CreateNextCarried == invoked # <<>> /\ invoked[Len(invoked)].called_next

(* create_next() *)
CreateNext == FALSE

(* One handler invocation, layer.handle_request(req, res, next_signal),   *)
(* and the loop up to the next invocation or to the return of handle.     *)
(* calls_next: whether the handler calls the next signal it is given.     *)
Invoke(calls_next) ==
    /\ pc = "exec"
    /\ LET layer == stack[matched[li] + 1]
           called_next == CreateNext \/ calls_next
           inner_more == hi > 0 /\ hi < Len(layer.route[1].stack)
           s == Seek(matched, li + 1, req.method, path_method_matched)
       IN  /\ invoked' = Append(invoked,
                                [layer |-> matched[li], handler |-> hi,
                                 params |-> ResolveParams(interner, req_params),
                                 called_next |-> called_next])
           /\ IF ChainStops(called_next)
              THEN /\ pc' = "done"
                   /\ UNCHANGED <<li, hi, path_method_matched, fallback>>
              ELSE IF inner_more
              THEN /\ hi' = hi + 1
                   /\ UNCHANGED <<pc, li, path_method_matched, fallback>>
              ELSE /\ li' = s.li
                   /\ hi' = s.hi
                   /\ path_method_matched' = s.pmm
                   /\ pc' = IF s.end THEN "done" ELSE "exec"
                   /\ fallback' = IF s.end THEN EndFallback(s.pmm) ELSE fallback
    /\ UNCHANGED <<routerVars, route_handle, panicked, req, req_params, matched, matcherVars, interner, handled, threadVars, expressVars>>

(* handle has returned: App::handle hands the response to the transport    *)
(* and the request is dropped.                                             *)
Return ==
    /\ pc = "done"
    /\ pc' = "ready"
    /\ req' = NoRequest
    /\ req_params' = None
    /\ matched' = <<>>
    /\ li' = 0
    /\ hi' = 0
    /\ path_method_matched' = FALSE
    /\ invoked' = <<>>
    /\ fallback' = 0
    /\ UNCHANGED <<routerVars, route_handle, panicked, matcherVars, interner, handled, threadVars, expressVars>>

-----------------------------------------------------------------------------

Next ==
    \/ \E path \in RoutePatterns, method \in Methods : Route(path, method)
    \/ \E path \in MiddlewarePatterns : UseWith(path)
    \/ \E verb \in Methods : RouteVerb(verb)
    \/ \E method \in Methods, path \in RequestPaths : HandleStart(method, path)
    \/ \E calls_next \in BOOLEAN : Invoke(calls_next)
    \/ Return

Spec == Init /\ [][Next]_vars

-----------------------------------------------------------------------------
(* Properties of Router::handle *)

InHandle == pc \in {"exec", "done"}

AllCalledNext == \A k \in DOMAIN invoked : invoked[k].called_next

Invoked(layer, handler) ==
    \E k \in DOMAIN invoked : invoked[k].layer = layer /\ invoked[k].handler = handler

LayerInvoked(layer) == \E k \in DOMAIN invoked : invoked[k].layer = layer

(* some handler of a layer registered before `layer` stopped the chain *)
StoppedBefore(layer) ==
    \E k \in DOMAIN invoked : ~invoked[k].called_next /\ invoked[k].layer < layer

CurrentRouteMatch == RouteMatch(req.method, req.path)

Indices(value) == {value[k] : k \in DOMAIN value}

(* C1: the handlers that handle() invokes for one request are invoked in  *)
(* ascending registration-index order: no layer is invoked before a layer *)
(* with a lower index, middleware and routes alike.                       *)
C1_AscendingOrder ==
    \A a, b \in DOMAIN invoked : a < b => invoked[a].layer <= invoked[b].layer

(* C1 witness: two layers were invoked, and the matcher queries produced  *)
(* the higher index first (a route registered before a middleware).       *)
C1_Witness ==
    /\ pc = "done"
    /\ Len(invoked) >= 2
    /\ invoked[1].layer < invoked[Len(invoked)].layer
    /\ LET m == Merged(req.method, req.path)
       IN  \E a, b \in DOMAIN m : a < b /\ m[a] > m[b]

(* C2: handle() executes each registered layer at most once per request:  *)
(* no handler of a layer appears twice among the invocations.             *)
C2_LayerRunsOnce ==
    \A a, b \in DOMAIN invoked :
        (invoked[a].layer = invoked[b].layer /\ invoked[a].handler = invoked[b].handler)
            => a = b

(* C3: once an invoked handler has returned without calling next, handle() *)
(* has returned: that invocation is the last one of the request and the    *)
(* dispatcher writes neither 404 nor 405.                                  *)
C3_StopReturns ==
    \A k \in DOMAIN invoked :
        ~invoked[k].called_next => (k = Len(invoked) /\ pc = "done" /\ fallback = 0)

(* C3 witness: a handler stopped while the loop had a later layer to      *)
(* invoke, or a later handler of the same route.                          *)
C3_Witness ==
    /\ pc = "done"
    /\ invoked # <<>>
    /\ ~invoked[Len(invoked)].called_next
    /\ \/ ~Seek(matched, li + 1, req.method, path_method_matched).end
       \/ hi > 0 /\ hi < Len(stack[matched[li] + 1].route[1].stack)

(* C4: a middleware registered under `*` is invoked for every request     *)
(* path, the root path included, unless a handler of an earlier-indexed   *)
(* layer stopped the chain.                                               *)
C4_StarRunsForEveryPath ==
    pc = "done" =>
        \A k \in DOMAIN stack :
            (stack[k].route = None /\ stack[k].path = PatStar)
                => (LayerInvoked(k - 1) \/ StoppedBefore(k - 1))

(* C5: when the middleware matcher has no match for the path and no       *)
(* method's route matcher has one, handle() answers 404 and invokes no    *)
(* handler.                                                               *)
C5_NotFound ==
    (/\ InHandle
     /\ get_all_matches(middleware_matcher, req.path) = <<>>
     /\ \A m \in DOMAIN routes : at(routes[m], req.path) = None)
        => (pc = "done" /\ fallback = 404 /\ invoked = <<>>)

(* C5 witness: a router with layers, and a request that none matches.     *)
C5_Witness ==
    /\ pc = "done"
    /\ stack # <<>>
    /\ middleware_matcher # DefaultNode
    /\ routes # EmptyMap
    /\ get_all_matches(middleware_matcher, req.path) = <<>>
    /\ \A m \in DOMAIN routes : at(routes[m], req.path) = None
    /\ fallback = 404

(* C6: when a route pattern matches the path under another method and     *)
(* none under the request's method, and no handler stopped, handle()      *)
(* answers 405, also when no middleware matches the path.                 *)
C6_MethodNotAllowed ==
    (/\ pc = "done"
     /\ CurrentRouteMatch = None
     /\ \E m \in (DOMAIN routes) \ {req.method} : at(routes[m], req.path) # None
     /\ AllCalledNext)
        => fallback = 405

(* C7: the handler given to route(pattern, handler, method) is invoked    *)
(* for every request of that method whose path matches the pattern,       *)
(* unless an earlier-indexed handler stopped, and then the dispatcher     *)
(* writes neither 404 nor 405.                                            *)
C7_RouteHandlerRuns ==
    (pc = "done" /\ CurrentRouteMatch # None) =>
        \A k \in Indices(CurrentRouteMatch[1].value) :
            StoppedBefore(k) \/ (Invoked(k, 0) /\ fallback = 0)

(* C8: two handlers registered with route() under the same pattern and    *)
(* method both run for a matching request, the first-registered first,    *)
(* provided the first calls next and no earlier layer stopped.            *)
C8_BothRouteHandlersRun ==
    (pc = "done" /\ CurrentRouteMatch # None) =>
        \A j, k \in Indices(CurrentRouteMatch[1].value) :
            (j < k /\ stack[j + 1].path = stack[k + 1].path /\ AllCalledNext)
                => \E a, b \in DOMAIN invoked :
                      /\ a < b
                      /\ invoked[a].layer = j /\ invoked[a].handler = 0
                      /\ invoked[b].layer = k /\ invoked[b].handler = 0

(* C9: at every handler invocation the request's RouteParams are set, to  *)
(* the parameters of the route match of this request, or to the empty     *)
(* mapping when no route matched.                                         *)
C9_ParamsBoundBeforeHandlers ==
    \A k \in DOMAIN invoked :
        /\ invoked[k].params # None
        /\ invoked[k].params[1] =
              (IF CurrentRouteMatch # None THEN CurrentRouteMatch[1].params
               ELSE EmptyMap)

(* C9 witness: a handler was invoked and saw a bound path parameter.      *)
C9_Witness ==
    /\ invoked # <<>>
    /\ invoked[1].params # None
    /\ invoked[1].params[1] # EmptyMap

(* C10: the route match binds every Param(name) of the pattern a matched  *)
(* layer was registered with to the text of the path segment at that      *)
(* position, under the name written in that pattern.                      *)
C10_ParamBoundUnderItsName ==
    (InHandle /\ CurrentRouteMatch # None) =>
        \A k \in Indices(CurrentRouteMatch[1].value) :
            LET segments == parse_segments(stack[k + 1].path).segments
                parts == split_path(req.path)
            IN  \A n \in DOMAIN segments :
                    segments[n].kind = "Param" =>
                        /\ n <= Len(parts)
                        /\ segments[n].s \in DOMAIN CurrentRouteMatch[1].params
                        /\ CurrentRouteMatch[1].params[segments[n].s] = parts[n]

-----------------------------------------------------------------------------
(* MiddlewareRouter on its own: insert, at and get_all_matches *)

MaxInserts == 3

PatFA == <<"/", "f", "/", "a">>
PatFI == <<"/", "f", "/", "{", "i", "}">>
PatFR == <<"/", "f", "/", "{", "*", "r", "}">>
PatFW == <<"/", "f", "/", "*">>
PatWX == <<"/", "*", "/", "x">>
PatRX == <<"/", "{", "*", "r", "}", "/", "x">>
PatEmpty == <<"/", "{", "}">>
PatEmptyCatchAll == <<"/", "e", "/", "{", "*", "}">>
PatDup == <<"/", "{", "i", "}", "/", "{", "i", "}">>

PathFA == <<"/", "f", "/", "a">>
PathFB == <<"/", "f", "/", "b">>
PathFBC == <<"/", "f", "/", "b", "/", "c">>
PathFATrailing == <<"/", "f", "/", "a", "/">>
PathFDoubledA == <<"/", "f", "/", "/", "a">>
PathFUpperA == <<"/", "f", "/", "A">>
PathXX == <<"/", "x", "/", "x">>

PatXMixed == <<"/", "x", "/", "a", "{", "b", "}">>

InsertPatterns ==
    {PatFA, PatFI, PatFR, PatFW, PatWX, PatRX, PatEmpty, PatEmptyCatchAll, PatDup,
     PatXMixed}
LookupPaths ==
    {PathFA, PathFB, PathFBC, PathFATrailing, PathFDoubledA, PathFUpperA, PathXX}

(* MiddlewareRouter::insert(path, index), index counting the calls made.  *)
(* changed: whether the call left the trie different from before.         *)
MatcherInsert(path) ==
    /\ Len(inserted) < MaxInserts
    /\ LET r == insert(router_root, path, Len(inserted))
       IN  /\ router_root' = r.node
           /\ inserted' = Append(inserted,
                                 [path |-> path, status |-> r.status,
                                  changed |-> r.node # router_root])
    /\ lookup' = None
    /\ UNCHANGED <<routerVars, route_handle, panicked, pc, handleVars, interner, handled, threadVars, expressVars>>

(* MiddlewareRouter::at(path) and get_all_matches(path) on the same path; *)
(* neither changes the trie, the results are LookupAt and LookupAll.      *)
MatcherLookup(path) ==
    /\ lookup' = Some(path)
    /\ UNCHANGED <<router_root, inserted>>
    /\ UNCHANGED <<routerVars, route_handle, panicked, pc, handleVars, interner, handled, threadVars, expressVars>>

MatcherNext ==
    \/ \E path \in InsertPatterns : MatcherInsert(path)
    \/ \E path \in LookupPaths : MatcherLookup(path)

MatcherSpec == Init /\ [][MatcherNext]_vars

LookupAt == at(router_root, lookup[1])
LookupAll == get_all_matches(router_root, lookup[1])

(* the pattern that insert() was given together with index k *)
InsertedPattern(k) == inserted[k + 1].path

(* every ParamCatchAll(name) of the pattern inserted with an index of m   *)
(* is bound in m to the path's segments from that position on             *)
CatchAllBindsRemainder(m) ==
    \A k \in Indices(m.value) :
        LET segments == parse_segments(InsertedPattern(k)).segments
            parts == split_path(lookup[1])
        IN  \A n \in DOMAIN segments :
                segments[n].kind = "ParamCatchAll" =>
                    /\ segments[n].s \in DOMAIN m.params
                    /\ m.params[segments[n].s] = Join(SubSeq(parts, n, Len(parts)))

(* C11: a pattern ending in a catch-all binds the catch-all name to the   *)
(* remainder of the path from the catch-all's position, '/' included, in  *)
(* the single-match lookup (at) and in the all-matches lookup.            *)
C11_CatchAllBindsRemainder ==
    lookup # None =>
        /\ LookupAt # None => CatchAllBindsRemainder(LookupAt[1])
        /\ \A k \in DOMAIN LookupAll : CatchAllBindsRemainder(LookupAll[k])

(* the all-matches half of C11 *)
AllMatchesBindRemainder ==
    lookup # None => \A k \in DOMAIN LookupAll : CatchAllBindsRemainder(LookupAll[k])

-----------------------------------------------------------------------------
(* The router with patterns that overlap: static patterns registered      *)
(* after a parameter pattern or a wildcard pattern that they match as     *)
(* paths.                                                                  *)

MaxOverlapLayers == 3

PatUA == <<"/", "u", "/", "a">>
PatUB == <<"/", "u", "/", "b">>
PathUA == <<"/", "u", "/", "a">>

OverlapRoutePatterns == {PatUId, PatUA, PatUB}
OverlapMiddlewarePatterns == {PatUId, PatUStar}
OverlapRequestPaths == {PathUA, PathU4Z}

OverlapRoute(path) == Len(stack) < MaxOverlapLayers /\ RouteCall(path, "GET")
OverlapUseWith(path) == Len(stack) < MaxOverlapLayers /\ UseWithCall(path)

OverlapNext ==
    \/ \E path \in OverlapRoutePatterns : OverlapRoute(path)
    \/ \E path \in OverlapMiddlewarePatterns : OverlapUseWith(path)
    \/ RouteVerb("GET")
    \/ \E path \in OverlapRequestPaths : HandleStart("GET", path)
    \/ \E calls_next \in BOOLEAN : Invoke(calls_next)
    \/ Return

OverlapSpec == Init /\ [][OverlapNext]_vars

(* every segment of the pattern is Static *)
StaticPattern(path) ==
    LET p == parse_segments(path)
    IN  p.status = "Ok" /\ \A n \in DOMAIN p.segments : p.segments[n].kind = "Static"

(* the route layers registered with a static pattern, as stack positions *)
StaticRouteLayers ==
    {j \in DOMAIN stack : stack[j].route # None /\ StaticPattern(stack[j].path)}

(* C12: of two different static patterns registered in one matcher, a     *)
(* request to the path of the first never matches a layer registered      *)
(* under the second.                                                       *)
C12_StaticPatternsDisjoint ==
    InHandle =>
        \A j1, j2 \in StaticRouteLayers :
            (stack[j1].path = req.path /\ stack[j2].path # req.path) =>
                (j2 - 1) \notin Indices(matched)

(* the pattern, inserted alone in an empty MiddlewareRouter, matches path *)
MatchesAlone(pattern, path) ==
    get_all_matches(insert(DefaultNode, pattern, 0).node, path) # <<>>

(* the middleware layers whose pattern matches the path, as indices *)
MatchingMiddleware(path) ==
    {j - 1 : j \in {i \in DOMAIN stack :
                      stack[i].route = None /\ MatchesAlone(stack[i].path, path)}}

(* C14: the middleware query returns every middleware layer whose pattern *)
(* matches the request path, and when handle() ends in its own 404 or 405 *)
(* every one of them has run.                                             *)
C14_EveryMatchingMiddleware ==
    InHandle =>
        /\ MatchingMiddleware(req.path) \subseteq Indices(MiddlewareIndices(req.path))
        /\ (pc = "done" /\ fallback # 0) =>
              \A k \in MatchingMiddleware(req.path) : LayerInvoked(k)

-----------------------------------------------------------------------------
(* The same request handled again: handle() calls recorded in `handled`   *)

MaxRequests == 3

PathU5 == <<"/", "u", "/", "5">>

RepeatRequestPaths == {PathU4, PathU5}

(* Router::handle, and the call recorded: the request, the merged layer   *)
(* indices in execution order and the symbol map stored in the request    *)
HandleRecorded(method, path) ==
    /\ Len(handled) < MaxRequests
    /\ HandleCall(method, path)
    /\ handled' = Append(handled, [req |-> req', matched |-> matched',
                                   params |-> req_params'])

RepeatNext ==
    \/ Route(PatUId, "GET")
    \/ UseWith(PatStar)
    \/ \E path \in RepeatRequestPaths : HandleRecorded("GET", path)
    \/ \E calls_next \in BOOLEAN : Invoke(calls_next)
    \/ Return

RepeatSpec == Init /\ [][RepeatNext]_vars

(* C13: two handle() calls with the same method and path, on a router     *)
(* that was not modified in between, have the same sequence of matched    *)
(* layers and the same parameter bindings, whatever was handled between.  *)
C13_SameRequestSameResult ==
    \A a, b \in DOMAIN handled :
        handled[a].req = handled[b].req =>
            /\ handled[a].matched = handled[b].matched
            /\ handled[a].params = handled[b].params

(* C13 witness: a request with a bound path parameter was handled, then   *)
(* another request that interned a new string, then the first one again.  *)
C13_Witness ==
    /\ Len(handled) = 3
    /\ handled[1].req = handled[3].req
    /\ handled[2].req # handled[1].req
    /\ handled[1].matched # <<>>
    /\ handled[1].params # None
    /\ handled[1].params[1] # EmptyMap
    /\ handled[2].params # handled[1].params
    /\ interner.counter > 2

-----------------------------------------------------------------------------
(* Router::handle: the end of the loop *)

(* a handler of a route's stack was invoked for this request *)
RouteHandlerRan == \E k \in DOMAIN invoked : invoked[k].handler > 0

(* C15: when a middleware matched, every invoked handler called next and  *)
(* no route handler for the request's method ran, handle() answers 405;   *)
(* when a middleware stopped, handle() writes no response of its own.     *)
C15_MiddlewareOnlyFallsTo405 ==
    pc = "done" =>
        /\ (/\ MiddlewareIndices(req.path) # <<>>
            /\ AllCalledNext
            /\ ~RouteHandlerRan) => fallback = 405
        /\ (\E k \in DOMAIN invoked :
                invoked[k].handler = 0 /\ ~invoked[k].called_next) => fallback = 0

(* C15 witness: a middleware ran and called next, no route handler ran,   *)
(* and handle() answered 405.                                             *)
C15_Witness ==
    /\ pc = "done"
    /\ MiddlewareIndices(req.path) # <<>>
    /\ invoked # <<>>
    /\ AllCalledNext
    /\ ~RouteHandlerRan
    /\ fallback = 405

-----------------------------------------------------------------------------
(* MiddlewareRouter::insert: the patterns it accepts *)

(* the parts of the pattern between slashes, as split_path gives them *)
PatternParts(path) == split_path(path)

(* the part is a catch-all `{*name}` or the wildcard `*` *)
CatchAllOrWildcardPart(part) ==
    part = <<"*">> \/ StartsWith(part, <<"{", "*">>)

(* a part follows a catch-all or wildcard part *)
SegmentAfterCatchAll(path) ==
    \E n \in DOMAIN PatternParts(path) :
        n < Len(PatternParts(path)) /\ CatchAllOrWildcardPart(PatternParts(path)[n])

(* C16: a pattern with a segment after a catch-all or wildcard segment is *)
(* rejected by insert with an error and registers nothing.                *)
C16_NothingAfterCatchAll ==
    \A k \in DOMAIN inserted :
        SegmentAfterCatchAll(inserted[k].path) =>
            inserted[k].status = "Err" /\ ~inserted[k].changed

(* the part is `{}` or `{*}`: a parameter or catch-all with an empty name *)
EmptyNamePart(part) == part = <<"{", "}">> \/ part = <<"{", "*", "}">>

EmptyParamName(path) ==
    \E n \in DOMAIN PatternParts(path) : EmptyNamePart(PatternParts(path)[n])

(* C17: a pattern holding a parameter or catch-all segment with an empty  *)
(* name, `{}` or `{*}`, is rejected by insert with an error.              *)
C17_EmptyNameRejected ==
    \A k \in DOMAIN inserted :
        EmptyParamName(inserted[k].path) => inserted[k].status = "Err"

(* the `{}` half of C17 *)
EmptyBracesRejected ==
    \A k \in DOMAIN inserted :
        (\E n \in DOMAIN PatternParts(inserted[k].path) :
            PatternParts(inserted[k].path)[n] = <<"{", "}">>) =>
                inserted[k].status = "Err" /\ ~inserted[k].changed

(* two parameter or catch-all segments of the pattern have one name *)
DuplicateParamName(path) ==
    LET p == parse_segments(path)
    IN  /\ p.status = "Ok"
        /\ \E a, b \in DOMAIN p.segments :
              /\ a # b
              /\ p.segments[a].kind \in {"Param", "ParamCatchAll"}
              /\ p.segments[b].kind \in {"Param", "ParamCatchAll"}
              /\ p.segments[a].s = p.segments[b].s

(* C18: a pattern in which one parameter name occurs twice is rejected by *)
(* insert with an error.                                                  *)
C18_DuplicateNameRejected ==
    \A k \in DOMAIN inserted :
        DuplicateParamName(inserted[k].path) => inserted[k].status = "Err"

-----------------------------------------------------------------------------
(* MiddlewareRouter::at: what it compares and which edge it prefers *)

(* C19: the single-match lookup compares the path as it is written: where *)
(* it returns the entry of a static pattern, the path is that pattern,    *)
(* character for character; a trailing slash, a doubled slash or another  *)
(* letter case makes the path not match.                                  *)
C19_ExactSegmentList ==
    (lookup # None /\ LookupAt # None) =>
        \A k \in Indices(LookupAt[1].value) :
            StaticPattern(InsertedPattern(k)) => lookup[1] = InsertedPattern(k)

(* the letter-case part of C19 *)
CaseSensitive ==
    (lookup = Some(PathFUpperA) /\ LookupAt # None) =>
        \A k \in Indices(LookupAt[1].value) : InsertedPattern(k) # PatFA

(* The entries that match the segments from position k on below node,     *)
(* each with the kinds of the edges that lead to it: 1 static, 2 param,   *)
(* 3 catch-all, 4 wildcard.                                               *)
RECURSIVE Walks(_, _, _)
Walks(node, segments, k) ==
    IF k > Len(segments)
    THEN IF node.value # None THEN {[kinds |-> <<>>, value |-> node.value[1]]} ELSE {}
    ELSE
    LET segment == segments[k]
        Under(kind, child) ==
            {[kinds |-> <<kind>> \o w.kinds, value |-> w.value] :
                w \in Walks(child, segments, k + 1)}
        End(kind, child) ==
            IF child.value # None THEN {[kinds |-> <<kind>>, value |-> child.value[1]]}
            ELSE {}
    IN  (IF segment \in DOMAIN node.children
         THEN Under(1, node.children[segment]) ELSE {})
        \cup (IF node.param # None THEN Under(2, node.param[1].node) ELSE {})
        \cup (IF node.catch_all # None THEN End(3, node.catch_all[1].node) ELSE {})
        \cup (IF node.wildcard # None THEN End(4, node.wildcard[1]) ELSE {})

(* a takes a more specific edge than b at the first node where they part *)
MoreSpecific(a, b) ==
    \E n \in (DOMAIN a.kinds) \cap (DOMAIN b.kinds) :
        /\ a.kinds[n] < b.kinds[n]
        /\ \A m \in 1..(n - 1) : a.kinds[m] = b.kinds[m]

LookupWalks == Walks(router_root, split_path(lookup[1]), 1)

-----------------------------------------------------------------------------
(* Router::route and Router::use_with: the leaf a registration lands in *)

(* the index lists held by the nodes of a trie *)
RECURSIVE LeafValues(_)
LeafValues(node) ==
    (IF node.value # None THEN {node.value[1]} ELSE {})
    \cup UNION {LeafValues(node.children[s]) : s \in DOMAIN node.children}
    \cup (IF node.param # None THEN LeafValues(node.param[1].node) ELSE {})
    \cup (IF node.catch_all # None THEN LeafValues(node.catch_all[1].node) ELSE {})
    \cup (IF node.wildcard # None THEN LeafValues(node.wildcard[1]) ELSE {})

(* the index lists of the middleware matcher and of every method's matcher *)
RouterLeafValues ==
    LeafValues(middleware_matcher) \cup UNION {LeafValues(routes[m]) : m \in DOMAIN routes}

(* C21: route() and use_with() append to an existing leaf only when the   *)
(* new pattern is, as a string, a pattern registered before: the indices  *)
(* that share a leaf belong to layers registered with one pattern string, *)
(* and a different string gets an entry of its own.                       *)
C21_LeafSharedBySamePatternOnly ==
    \A value \in RouterLeafValues :
        \A a, b \in Indices(value) : stack[a + 1].path = stack[b + 1].path

-----------------------------------------------------------------------------
(* Route::get, Route::post, ... on the handle that route() returns *)

(* the handlers attached to the route of the layer at stack position j    *)
(* under the verb, as positions in the route's stack                      *)
AttachedUnder(j, verb) ==
    IF stack[j].route = None THEN {}
    ELSE {n \in DOMAIN stack[j].route[1].stack :
            stack[j].route[1].stack[n].method = Some(verb)}

(* C22: a handler attached under verb V through the handle returned by    *)
(* route(pattern, ...) runs for a request to the pattern with verb V,     *)
(* whatever verb route() was given, when everything before it called      *)
(* next; and no attached handler runs for a request of another verb.      *)
C22_AttachedVerbRuns ==
    /\ (pc = "done" /\ AllCalledNext) =>
          \A j \in DOMAIN stack :
              MatchesAlone(stack[j].path, req.path) =>
                  \A n \in AttachedUnder(j, req.method) : Invoked(j - 1, n)
    /\ \A k \in DOMAIN invoked :
          invoked[k].handler > 0 =>
              invoked[k].handler \in AttachedUnder(invoked[k].layer + 1, req.method)

(* the second half of C22: the handlers that ran were attached under    *)
(* the request's verb                                                     *)
OnlyRequestVerbRuns ==
    \A k \in DOMAIN invoked :
        invoked[k].handler > 0 =>
            invoked[k].handler \in AttachedUnder(invoked[k].layer + 1, req.method)

-----------------------------------------------------------------------------
(* Router::handle: its outcomes *)

(* handle() returned because a handler did not call next *)
OutcomeStopped ==
    pc = "done" /\ fallback = 0 /\ \E k \in DOMAIN invoked : ~invoked[k].called_next

(* handle() returned at the end of its loop with no response of its own *)
OutcomeFellThrough ==
    pc = "done" /\ fallback = 0 /\ invoked # <<>> /\ AllCalledNext

OutcomeNotFound == pc = "done" /\ fallback = 404 /\ invoked = <<>>

OutcomeMethodNotAllowed == pc = "done" /\ fallback = 405 /\ AllCalledNext

(* the number of outcomes that hold *)
Outcomes ==
    (IF OutcomeStopped THEN 1 ELSE 0) + (IF OutcomeFellThrough THEN 1 ELSE 0)
    + (IF OutcomeNotFound THEN 1 ELSE 0) + (IF OutcomeMethodNotAllowed THEN 1 ELSE 0)

(* C23: a handle() call that has returned reached exactly one outcome (a  *)
(* handler stopped, all layers fell through, 404, 405), and at no moment  *)
(* of the call has a matched handler been invoked more than once.         *)
C23_OneOutcomeEachHandlerOnce ==
    /\ pc = "done" => Outcomes = 1
    /\ \A a, b \in DOMAIN invoked :
          (invoked[a].layer = invoked[b].layer /\ invoked[a].handler = invoked[b].handler)
              => a = b

(* the outcome half of C23 *)
ExactlyOneOutcome == pc = "done" => Outcomes = 1

(* handlers return: an invocation that is enabled is eventually taken *)
FairSpec == Spec /\ WF_vars(\E calls_next \in BOOLEAN : Invoke(calls_next))

(* the termination half of C23: a handle() call in progress returns *)
HandleReturns == (pc = "exec") ~> (pc = "done")

-----------------------------------------------------------------------------
(* Interner used by concurrent requests: get_or_intern step by step *)

OthersUnchanged ==
    UNCHANGED <<routerVars, route_handle, panicked, pc, handleVars, matcherVars, handled,
                expressVars>>

(* the call of get_or_intern by thread t has returned sym for string s *)
Returned(t, s, sym) ==
    LET th == threads[t]
        rest == Tail(th.work)
        returned == Append(th.returned, [s |-> s, sym |-> sym])
    IN  [th EXCEPT !.returned = returned,
                   !.work = rest,
                   !.pc = IF rest = <<>> THEN "bound" ELSE "lookup",
                   !.params = IF rest = <<>>
                              THEN Some(MapInsert(EmptyMap, returned[1].sym, returned[2].sym))
                              ELSE None]

(* handle: a route matched; the loop over its parameters begins *)
BindStart(t) ==
    /\ threads[t].pc = "idle"
    /\ threads' = [threads EXCEPT ![t].pc = "lookup",
                                  ![t].work = <<ParamName, ThreadValue(t)>>]
    /\ UNCHANGED <<interner, write_lock>>
    /\ OthersUnchanged

(* get_or_intern: if let Some(sym) = self.forward.get(s) { return *sym; } *)
ForwardGet(t) ==
    /\ threads[t].pc = "lookup"
    /\ LET s == Head(threads[t].work)
       IN  threads' = [threads EXCEPT ![t] =
                         IF get(interner, s) # None THEN Returned(t, s, get(interner, s)[1])
                         ELSE [threads[t] EXCEPT !.pc = "fetch_add", !.s = s]]
    /\ UNCHANGED <<interner, write_lock>>
    /\ OthersUnchanged

(* get_or_intern: self.counter.fetch_add(1, Ordering::Relaxed) *)
FetchAdd(t) ==
    /\ threads[t].pc = "fetch_add"
    /\ threads' = [threads EXCEPT ![t].sym = interner.counter, ![t].pc = "insert"]
    /\ interner' = [interner EXCEPT !.counter = @ + 1]
    /\ UNCHANGED write_lock
    /\ OthersUnchanged

(* get_or_intern: self.forward.insert(leaked, sym) *)
ForwardInsert(t) ==
    /\ threads[t].pc = "insert"
    /\ interner' = [interner EXCEPT
                      !.forward = MapInsert(@, threads[t].s, threads[t].sym)]
    /\ threads' = [threads EXCEPT ![t].pc = "reverse"]
    /\ UNCHANGED write_lock
    /\ OthersUnchanged

(* get_or_intern: the block under self.reverse.write(), and the return *)
ReverseWrite(t) ==
    /\ threads[t].pc = "reverse"
    /\ LET sym == threads[t].sym
           s == threads[t].s
       IN  /\ interner' = [interner EXCEPT
                             !.reverse = IF sym >= Len(@) THEN Append(@, s)
                                         ELSE [@ EXCEPT ![sym + 1] = s]]
           /\ threads' = [threads EXCEPT ![t] = Returned(t, s, sym)]
    /\ UNCHANGED write_lock
    /\ OthersUnchanged

(* a handler of the request calls req.params().get("i") *)
ParamsGet(t) ==
    /\ threads[t].pc = "bound"
    /\ threads' = [threads EXCEPT ![t].got =
                     Some(RouteParamsGet(interner, threads[t].params[1], ParamName))]
    /\ UNCHANGED <<interner, write_lock>>
    /\ OthersUnchanged

InternerNext ==
    \E t \in Threads :
        \/ BindStart(t)
        \/ ForwardGet(t)
        \/ FetchAdd(t)
        \/ ForwardInsert(t)
        \/ ReverseWrite(t)
        \/ ParamsGet(t)

InternerSpec == Init /\ [][InternerNext]_vars

(* the calls of get_or_intern that have returned, over all threads *)
ReturnedCalls ==
    UNION {{threads[t].returned[k] : k \in DOMAIN threads[t].returned} : t \in Threads}

(* C24: under every interleaving, the get_or_intern calls with one string *)
(* return one symbol and calls with different strings return different    *)
(* symbols.                                                               *)
C24_OneSymbolPerString ==
    \A a, b \in ReturnedCalls : (a.s = b.s) <=> (a.sym = b.sym)

(* the second half of C24: different strings, different symbols *)
DifferentStringsDifferentSymbols ==
    \A a, b \in ReturnedCalls : a.s # b.s => a.sym # b.sym

(* C25: once get_or_intern(s) has returned y, resolve(y) is Some(s),      *)
(* whatever other get_or_intern calls are in progress.                    *)
C25_ResolveRoundTrip ==
    \A a \in ReturnedCalls : resolve(interner, a.sym) = Some(a.s)

-----------------------------------------------------------------------------
(* Router::handle, lines 113-127: the parameter binding of concurrent     *)
(* requests under INTERNER.write()                                        *)

RequestValues == {ThreadValue(t) : t \in Threads}

(* handle: a route matched for the request of thread t and the thread     *)
(* arrives at INTERNER.write(); value is the segment its pattern binds    *)
RequestWrite(t, value) ==
    /\ threads[t].pc = "idle"
    /\ threads' = [threads EXCEPT ![t].pc = "want",
                                  ![t].work = <<ParamName, value>>]
    /\ UNCHANGED <<interner, write_lock>>
    /\ OthersUnchanged

(* INTERNER.write() returns the guard: no other thread holds the lock *)
AcquireWrite(t) ==
    /\ threads[t].pc = "want"
    /\ write_lock = None
    /\ write_lock' = Some(t)
    /\ threads' = [threads EXCEPT ![t].pc = "locked"]
    /\ UNCHANGED interner
    /\ OthersUnchanged

(* the loop over route_match.params under the guard, then set_params *)
InternUnderWrite(t) ==
    /\ threads[t].pc = "locked"
    /\ LET work == threads[t].work
           r == InternParams(interner, MapInsert(EmptyMap, work[1], work[2]),
                             <<work[1]>>, EmptyMap)
       IN  /\ interner' = r.interner
           /\ threads' = [threads EXCEPT ![t].pc = "interned",
                                         ![t].work = <<>>,
                                         ![t].params = Some(r.params)]
    /\ UNCHANGED write_lock
    /\ OthersUnchanged

(* the guard is dropped at the end of the block *)
ReleaseWrite(t) ==
    /\ threads[t].pc = "interned"
    /\ write_lock' = None
    /\ threads' = [threads EXCEPT ![t].pc = "bound"]
    /\ UNCHANGED interner
    /\ OthersUnchanged

(* handle returns and the thread takes its next request *)
HandleReturn(t) ==
    /\ threads[t].pc = "bound"
    /\ threads' = [threads EXCEPT ![t] = IdleThread]
    /\ UNCHANGED <<interner, write_lock>>
    /\ OthersUnchanged

WriteLockNext ==
    \E t \in Threads :
        \/ \E value \in RequestValues : RequestWrite(t, value)
        \/ AcquireWrite(t)
        \/ InternUnderWrite(t)
        \/ ReleaseWrite(t)
        \/ HandleReturn(t)

WriteLockSpec == Init /\ [][WriteLockNext]_vars

(* thread t waits in INTERNER.write() for the guard another thread holds *)
WaitsForWrite(t) ==
    threads[t].pc = "want" /\ write_lock # None /\ write_lock[1] # t

(* C26: no request's parameter binding waits for a lock that another      *)
(* request holds while it interns its parameter names and values.         *)
C26_BindingNeverWaits == \A t \in Threads : ~WaitsForWrite(t)

-----------------------------------------------------------------------------
(* RateLimitMiddleware (src/express/rate_limit.rs) *)

MaxClock == 2

(* the settings given to new() *)
RequestsPerMinuteValues == {0, 2}
WindowSizes == {1}

(* the two headers that call() reads, each an Option *)
Headers(forwarded_for, real_ip) == [forwarded_for |-> forwarded_for, real_ip |-> real_ip]

RequestHeaders == {Headers(Some(<<"a">>), None), Headers(None, Some(<<"a">>)),
                   Headers(None, None)}

(* call: X-Forwarded-For, or else X-Real-IP, or else "unknown" *)
ClientIp(headers) ==
    IF headers.forwarded_for # None THEN headers.forwarded_for[1]
    ELSE IF headers.real_ip # None THEN headers.real_ip[1]
    ELSE <<"unknown">>

(* Instant::duration_since: zero when `earlier` is later than `now` *)
DurationSince(now, earlier) == IF now >= earlier THEN now - earlier ELSE 0

(* is_rate_limited(ip) from `let mut entry` on: the entry is held, and    *)
(* its shard locked, until the function returns                           *)
IsRateLimitedCountsRejected(lim, ip, now) ==
    LET entry == IF ip \in DOMAIN lim.store THEN lim.store[ip]
                 ELSE [timestamp |-> now, count |-> 0]
    IN  IF DurationSince(now, entry.timestamp) > lim.window_size
        THEN [limited |-> FALSE, entry |-> [timestamp |-> now, count |-> 1]]
        ELSE IF entry.count >= lim.requests_per_minute
        THEN [limited |-> TRUE, entry |-> [entry EXCEPT !.count = @ + 1]]
        ELSE [limited |-> FALSE, entry |-> [entry EXCEPT !.count = @ + 1]]

IsRateLimitedResetAtWindow(lim, ip, now) ==
    LET entry == IF ip \in DOMAIN lim.store THEN lim.store[ip]
                 ELSE [timestamp |-> now, count |-> 0]
    IN  IF DurationSince(now, entry.timestamp) >= lim.window_size
        THEN [limited |-> FALSE, entry |-> [timestamp |-> now, count |-> 1]]
        ELSE IF entry.count >= lim.requests_per_minute
        THEN [limited |-> TRUE, entry |-> entry]
        ELSE [limited |-> FALSE, entry |-> [entry EXCEPT !.count = @ + 1]]

is_rate_limited(lim, ip, now) ==
    LET entry == IF ip \in DOMAIN lim.store THEN lim.store[ip]
                 ELSE [timestamp |-> now, count |-> 0]
    IN  IF DurationSince(now, entry.timestamp) > lim.window_size
        THEN [limited |-> FALSE, entry |-> [timestamp |-> now, count |-> 1]]
        ELSE IF entry.count >= lim.requests_per_minute
        THEN [limited |-> TRUE, entry |-> entry]
        ELSE [limited |-> FALSE, entry |-> [entry EXCEPT !.count = @ + 1]]

ExpressFrame ==
    UNCHANGED <<routerVars, route_handle, panicked, pc, handleVars, matcherVars, handled,
                interner, threadVars, authVars>>

(* RateLimitMiddleware::new(requests_per_minute, window_size) *)
RateLimitNew(requests_per_minute, window_size) ==
    /\ limiter = None
    /\ limiter' = Some([requests_per_minute |-> requests_per_minute,
                        window_size |-> window_size, store |-> EmptyMap])
    /\ UNCHANGED <<clock, calls, passed, sessionVars>>
    /\ ExpressFrame

(* time passes *)
Tick ==
    /\ clock < MaxClock
    /\ clock' = clock + 1
    /\ UNCHANGED <<limiterVars, sessionVars>>
    /\ ExpressFrame

(* call: the client key is read from the headers; is_rate_limited reads   *)
(* Instant::now(). A thread starts its next call once the last returned.  *)
CallStart(t, headers) ==
    /\ limiter # None
    /\ calls[t].pc # "entry"
    /\ calls' = [calls EXCEPT ![t] = [pc |-> "entry", ip |-> ClientIp(headers),
                                      now |-> clock]]
    /\ UNCHANGED <<clock, limiter, passed, sessionVars>>
    /\ ExpressFrame

(* is_rate_limited on the entry of the key, and what call does with the   *)
(* result: 429 and stop(), or next()                                      *)
CallDecide(t) ==
    /\ calls[t].pc = "entry"
    /\ LET ip == calls[t].ip
           r == is_rate_limited(limiter[1], ip, calls[t].now)
           same_window == /\ ip \in DOMAIN passed
                          /\ passed[ip].timestamp = r.entry.timestamp
           before == IF same_window THEN passed[ip].count ELSE 0
       IN  /\ limiter' = Some([limiter[1] EXCEPT !.store = MapInsert(@, ip, r.entry)])
           /\ calls' = [calls EXCEPT ![t].pc = IF r.limited THEN "stop" ELSE "next"]
           /\ passed' = MapInsert(passed, ip,
                                  [timestamp |-> r.entry.timestamp,
                                   count |-> IF r.limited THEN before ELSE before + 1])
    /\ UNCHANGED <<clock, sessionVars>>
    /\ ExpressFrame

RateLimitNext ==
    \/ \E requests_per_minute \in RequestsPerMinuteValues, window_size \in WindowSizes :
           RateLimitNew(requests_per_minute, window_size)
    \/ Tick
    \/ \E t \in Threads, headers \in RequestHeaders : CallStart(t, headers)
    \/ \E t \in Threads : CallDecide(t)

RateLimitSpec == Init /\ [][RateLimitNext]_vars

(* C28: under every interleaving, the requests of one client key that the *)
(* middleware lets through in one window are at most requests_per_minute; *)
(* every further one in that window gets 429 and the chain stops.         *)
C28_AtMostLimitPerWindow ==
    limiter # None =>
        \A ip \in DOMAIN passed : passed[ip].count <= limiter[1].requests_per_minute

(* C28 for a limit of at least one request *)
PositiveLimitHolds ==
    (limiter # None /\ limiter[1].requests_per_minute >= 1) =>
        \A ip \in DOMAIN passed : passed[ip].count <= limiter[1].requests_per_minute

-----------------------------------------------------------------------------
(* SessionTokenValidator (src/express/auth/session.rs) *)

MinTokenLen == 16
MaxTokenLen == 1024

(* a token is the sequence of its characters *)
TokenValid == <<"v","a","l","i","d","_","t","o","k","e","n","_","1","2","3","4","5">>
TokenShort == <<"s","h","o","r","t","_","t","o","k","e","n">>
TokenInvalid == <<"i","n","v","a","l","i","d","_","t","o","k","e","n">>

Tokens == {TokenValid, TokenShort, TokenInvalid}
Users == {"user123", "user456"}
TtlValues == {1, 2}

AsciiAlphanumeric ==
    {"a","b","c","d","e","f","g","h","i","j","k","l","m","n","o","p","q","r","s","t","u",
     "v","w","x","y","z","A","B","C","D","E","F","G","H","I","J","K","L","M","N","O","P",
     "Q","R","S","T","U","V","W","X","Y","Z","0","1","2","3","4","5","6","7","8","9"}

Whitespace == {" ", "\t", "\n", "\r"}

is_valid_format(token) ==
    /\ \E i \in 1..Len(token) : token[i] \notin Whitespace
    /\ Len(token) >= MinTokenLen
    /\ Len(token) <= MaxTokenLen
    /\ \A i \in 1..Len(token) : token[i] \in AsciiAlphanumeric \cup {"-", "_"}

Ok(user) == [ok |-> TRUE, value |-> user]
Err(error) == [ok |-> FALSE, value |-> error]

(* validate_token(token) at time now *)
validate_token(map, token, now) ==
    IF ~is_valid_format(token) THEN Err("InvalidToken")
    ELSE IF token \in DOMAIN map
         THEN IF map[token].expires_at <= now THEN Err("TokenExpired")
              ELSE Ok(map[token].user)
         ELSE Err("UserNotFound")

SessionFrame == UNCHANGED <<clock, limiterVars>> /\ ExpressFrame

(* add_session(token, user, ttl) *)
AddSession(token, user, ttl) ==
    /\ sessions' = MapInsert(sessions, token,
                             [user |-> user, expires_at |-> clock + ttl,
                              last_accessed |-> clock])
    /\ added' = MapInsert(added, token, [user |-> user, expires_at |-> clock + ttl])
    /\ validated' = None
    /\ cleaned' = None
    /\ SessionFrame

(* cleanup_expired_sessions() *)
CleanupExpiredSessions ==
    /\ sessions' = [token \in {k \in DOMAIN sessions : sessions[k].expires_at > clock}
                      |-> sessions[token]]
    /\ validated' = None
    /\ cleaned' = Some([now |-> clock, sessions |-> sessions])
    /\ UNCHANGED added
    /\ SessionFrame

(* validate_token(token) *)
ValidateToken(token) ==
    /\ validated' = Some([token |-> token, now |-> clock,
                          result |-> validate_token(sessions, token, clock)])
    /\ UNCHANGED <<sessions, added, cleaned>>
    /\ SessionFrame

SessionNext ==
    \/ \E token \in Tokens, user \in Users, ttl \in TtlValues : AddSession(token, user, ttl)
    \/ CleanupExpiredSessions
    \/ \E token \in Tokens : ValidateToken(token)
    \/ Tick

SessionSpec == Init /\ [][SessionNext]_vars

WellFormed(token) == is_valid_format(token)

(* C29: after add_session(token, user, ttl), validate_token(token)        *)
(* returns that user as long as the TTL has not elapsed; validate_token   *)
(* of a token no session was ever added for returns UserNotFound.         *)
C29_AddedValidatesNeverAddedNotFound ==
    validated # None =>
        LET v == validated[1]
        IN  /\ (v.token \in DOMAIN added /\ v.now < added[v.token].expires_at)
                  => v.result = Ok(added[v.token].user)
            /\ v.token \notin DOMAIN added => v.result = Err("UserNotFound")

(* C29 for the tokens that pass is_valid_format *)
WellFormedAddedValidates ==
    (validated # None /\ WellFormed(validated[1].token)) =>
        LET v == validated[1]
        IN  /\ (v.token \in DOMAIN added /\ v.now < added[v.token].expires_at)
                  => v.result = Ok(added[v.token].user)
            /\ v.token \notin DOMAIN added => v.result = Err("UserNotFound")

(* C30: for a token a session was added for, once the TTL has elapsed and *)
(* before any cleanup, validate_token(token) returns TokenExpired.        *)
C30_ElapsedIsTokenExpired ==
    validated # None =>
        LET v == validated[1]
        IN  (/\ v.token \in DOMAIN added
             /\ v.token \in DOMAIN sessions
             /\ added[v.token].expires_at <= v.now)
                => v.result = Err("TokenExpired")

(* C30 for the tokens that pass is_valid_format *)
WellFormedElapsedIsTokenExpired ==
    (validated # None /\ WellFormed(validated[1].token)) =>
        LET v == validated[1]
        IN  (/\ v.token \in DOMAIN added
             /\ v.token \in DOMAIN sessions
             /\ added[v.token].expires_at <= v.now)
                => v.result = Err("TokenExpired")

(* the cases of C29 and C30 happen for a well-formed token: the added     *)
(* user comes back before the TTL elapsed, TokenExpired after             *)
ValidatedUser ==
    /\ validated # None
    /\ validated[1].token = TokenValid
    /\ validated[1].result.ok

ValidatedExpired ==
    /\ validated # None
    /\ validated[1].token = TokenValid
    /\ validated[1].result = Err("TokenExpired")

(* an added session with a short token is refused by is_valid_format      *)
AddedTokenInvalid ==
    /\ validated # None
    /\ validated[1].token \in DOMAIN added
    /\ validated[1].now < added[validated[1].token].expires_at
    /\ validated[1].result = Err("InvalidToken")

(* a token never added is refused by is_valid_format *)
NeverAddedTokenInvalid ==
    /\ validated # None
    /\ validated[1].token \notin DOMAIN added
    /\ validated[1].result = Err("InvalidToken")

(* C31: after cleanup_expired_sessions(), validate_token of a token whose *)
(* session had expired returns UserNotFound, and every session that had   *)
(* not expired at cleanup time still validates to its user.               *)
C31_CleanupRemovesExpiredOnly ==
    (validated # None /\ cleaned # None) =>
        LET v == validated[1]
            before == cleaned[1].sessions
        IN  v.token \in DOMAIN before =>
                IF before[v.token].expires_at <= cleaned[1].now
                THEN v.result = Err("UserNotFound")
                ELSE v.now < before[v.token].expires_at
                         => v.result = Ok(before[v.token].user)

(* C31 for the tokens that pass is_valid_format *)
WellFormedCleanupRemovesExpiredOnly ==
    (validated # None /\ cleaned # None /\ WellFormed(validated[1].token)) =>
        LET v == validated[1]
            before == cleaned[1].sessions
        IN  v.token \in DOMAIN before =>
                IF before[v.token].expires_at <= cleaned[1].now
                THEN v.result = Err("UserNotFound")
                ELSE v.now < before[v.token].expires_at
                         => v.result = Ok(before[v.token].user)

(* the cases of C31 happen for a well-formed token *)
CleanedNotFound ==
    /\ validated # None /\ cleaned # None
    /\ validated[1].token = TokenValid
    /\ TokenValid \in DOMAIN cleaned[1].sessions
    /\ validated[1].result = Err("UserNotFound")

KeptValidates ==
    /\ validated # None /\ cleaned # None
    /\ validated[1].token = TokenValid
    /\ TokenValid \in DOMAIN cleaned[1].sessions
    /\ validated[1].result.ok

-----------------------------------------------------------------------------
(* the pattern, inserted alone, is matched by at(path) *)
PatternMatches(pattern, path) == at(insert(DefaultNode, pattern, 0).node, path) # None

(* the inserted patterns that match the path looked up *)
MatchingInserted ==
    {k \in 1..Len(inserted) :
        inserted[k].status = "Ok" /\ PatternMatches(inserted[k].path, lookup[1])}

(* C32: whenever at least one inserted pattern matches the path, at(path) *)
(* returns a match, also when the most specific edge at a node leads to a *)
(* dead end and a less specific edge at that node would match.            *)
C32_AtIsComplete ==
    (lookup # None /\ MatchingInserted # {}) => LookupAt # None

(* the same with the walks of the trie: some walk reaches a value *)
SomeWalkThenAtMatches ==
    (lookup # None /\ LookupWalks # {}) => LookupAt # None

(* without a dead end at() is complete: when the first edge at() takes at *)
(* every node is the only one, a matching pattern is found                *)
SinglePatternComplete ==
    (lookup # None /\ Len(inserted) = 1 /\ MatchingInserted # {}) => LookupAt # None

(* the dead end of C32: "/f/{i}" and "/f/{*r}" inserted, at("/f/b/c")     *)
(* takes the param edge for b, finds no edge for c and returns None,      *)
(* while get_all_matches finds the catch-all                              *)
AtDeadEnd ==
    /\ lookup = Some(PathFBC)
    /\ \E j, k \in 1..Len(inserted) : inserted[j].path = PatFI /\ inserted[k].path = PatFR
    /\ \A k \in 1..Len(inserted) : inserted[k].path \in {PatFI, PatFR}
    /\ LookupAt = None
    /\ LookupAll # <<>>

-----------------------------------------------------------------------------
(* the leaves of a matcher, each with the edges that lead to it *)
RECURSIVE Leaves(_, _)
Leaves(node, edges) ==
    (IF node.value # None THEN {[edges |-> edges, value |-> node.value[1]]} ELSE {})
    \cup UNION {Leaves(node.children[s], Append(edges, <<"static", s>>)) :
                    s \in DOMAIN node.children}
    \cup (IF node.param # None
          THEN Leaves(node.param[1].node, Append(edges, <<"param">>)) ELSE {})
    \cup (IF node.catch_all # None
          THEN Leaves(node.catch_all[1].node, Append(edges, <<"catch_all">>)) ELSE {})
    \cup (IF node.wildcard # None
          THEN Leaves(node.wildcard[1], Append(edges, <<"wildcard">>)) ELSE {})

(* every place of a matcher where a layer index is stored; matcher is      *)
(* None for middleware_matcher and Some(method) for routes[method]        *)
StoredIn(matcher, node) ==
    UNION {{[matcher |-> matcher, edges |-> l.edges, pos |-> k, index |-> l.value[k]] :
               k \in DOMAIN l.value} : l \in Leaves(node, <<>>)}

StoredIndices ==
    StoredIn(None, middleware_matcher)
    \cup UNION {StoredIn(Some(m), routes[m]) : m \in DOMAIN routes}

IndicesConsistent ==
    /\ \A s \in StoredIndices : s.index \in 0..(Len(stack) - 1)
    /\ \A i \in 0..(Len(stack) - 1) :
           Cardinality({s \in StoredIndices : s.index = i}) = 1
    /\ \A s \in StoredIndices :
           (stack[s.index + 1].route = None) <=> (s.matcher = None)

(* route() and use_with() alone, over the patterns of Spec and OverlapSpec *)
MaxRegistrations == 3

RegisterRoutePatterns == RoutePatterns \cup OverlapRoutePatterns
RegisterMiddlewarePatterns == MiddlewarePatterns \cup OverlapMiddlewarePatterns

RegisterRoute(path, method) == Len(stack) < MaxRegistrations /\ RouteCall(path, method)
RegisterUseWith(path) == Len(stack) < MaxRegistrations /\ UseWithCall(path)

RegisterNext ==
    \/ \E path \in RegisterRoutePatterns, method \in Methods : RegisterRoute(path, method)
    \/ \E path \in RegisterMiddlewarePatterns : RegisterUseWith(path)

RegisterSpec == Init /\ [][RegisterNext]_vars

(* route(path, handler, M) stores the new index in the matcher of M, and  *)
(* no call moves or removes an index stored before                        *)
StoredUnderMethod ==
    /\ StoredIndices \subseteq StoredIndices'
    /\ \A path \in RegisterRoutePatterns, method \in Methods :
           (RouteCall(path, method) /\ ~panicked') =>
               \E s \in StoredIndices' \ StoredIndices :
                   s.index = Len(stack) /\ s.matcher = Some(method)

(* C33: after any sequence of route() and use_with() calls every stored   *)
(* index is smaller than the stack's length, every index 0..len-1 is in   *)
(* exactly one leaf of exactly one matcher, the middleware matcher holds  *)
(* layers without a route and the matcher of method M the route layers    *)
(* registered under M; handle() never indexes out of bounds.              *)
C33_IndicesConsistent == []IndicesConsistent /\ [][StoredUnderMethod]_vars

(* C33 witness: a full stack with a middleware and a POST route, two of   *)
(* its indices sharing a leaf                                             *)
C33_Witness ==
    /\ Len(stack) = MaxRegistrations
    /\ \E s, t \in StoredIndices : s.matcher = None /\ t.matcher = Some("POST")
    /\ \E s, t \in StoredIndices : s.edges = t.edges /\ s.matcher = t.matcher /\ s.pos # t.pos

-----------------------------------------------------------------------------
(* no step changes what resolve returns for a symbol it resolved before *)
ResolveStable ==
    \A sym \in 0..MaxThreads * 2 :
        resolve(interner, sym) # None => resolve(interner', sym) = resolve(interner, sym)

(* no step changes what get returns for a string it found before *)
GetStable ==
    \A s \in DOMAIN interner.forward : get(interner', s) = get(interner, s)

(* C34: the interner is append-only: once resolve(y) has returned Some(s) *)
(* every later resolve(y) returns Some(s), and once get(s) has returned   *)
(* Some(y) every later get(s) returns Some(y), under every interleaving   *)
(* of concurrent get_or_intern calls.                                     *)
C34_AppendOnly == [][ResolveStable /\ GetStable]_vars

(* the halves of C34 apart *)
ResolveAppendOnly == [][ResolveStable]_vars
GetAppendOnly == [][GetStable]_vars

-----------------------------------------------------------------------------
(* thread t's call is decided in this step *)
Decides(t) == calls[t].pc = "entry" /\ calls'[t].pc # "entry"

(* the entry of the key before and after the step *)
EntryOf(ip) == limiter[1].store[ip]
EntryAfter(ip) == limiter'[1].store[ip]

(* a request of a known client decided more than window_size after the   *)
(* window start passes and starts a window at its own time with count 1;  *)
(* one decided exactly window_size after it stays in the old window       *)
WindowStep ==
    \A t \in Threads :
        (Decides(t) /\ calls[t].ip \in DOMAIN limiter[1].store) =>
            LET ip == calls[t].ip
                elapsed == calls[t].now - EntryOf(ip).timestamp
            IN  /\ elapsed > limiter[1].window_size =>
                       /\ calls'[t].pc = "next"
                       /\ EntryAfter(ip) = [timestamp |-> calls[t].now, count |-> 1]
                /\ elapsed = limiter[1].window_size =>
                       /\ EntryAfter(ip).timestamp = EntryOf(ip).timestamp
                       /\ \/ calls'[t].pc = "next"
                             /\ EntryAfter(ip).count = EntryOf(ip).count + 1
                          \/ calls'[t].pc = "stop"
                             /\ EntryAfter(ip).count = EntryOf(ip).count

StoppedAtWindowEnd ==
    /\ limiter # None
    /\ \E t \in Threads :
           /\ calls[t].pc = "stop"
           /\ calls[t].ip \in DOMAIN limiter[1].store
           /\ calls[t].now - limiter[1].store[calls[t].ip].timestamp = limiter[1].window_size

-----------------------------------------------------------------------------
(* the count of a key, zero for a key the store does not know *)
CountOf(store, ip) == IF ip \in DOMAIN store THEN store[ip].count ELSE 0

(* a rejected request leaves its key's count and window start as they     *)
(* were, and a decision for one key leaves every other key's entry alone  *)
RejectedStep ==
    \A t \in Threads :
        Decides(t) =>
            LET ip == calls[t].ip
                store == limiter[1].store
                after == limiter'[1].store
            IN  /\ calls'[t].pc = "stop" =>
                       /\ CountOf(after, ip) = CountOf(store, ip)
                       /\ ip \in DOMAIN store => after[ip] = store[ip]
                /\ \A other \in (DOMAIN store \cup DOMAIN after) \ {ip} :
                       /\ other \in DOMAIN store
                       /\ other \in DOMAIN after
                       /\ after[other] = store[other]

-----------------------------------------------------------------------------
(* AuthMiddleware (src/express/auth/middleware.rs) *)

(* AuthLevel derives Ord: the variants compare in the order they are      *)
(* declared                                                               *)
AuthLevels == <<"Guest", "User", "Admin">>
LevelRank(level) == CHOOSE k \in 1..Len(AuthLevels) : AuthLevels[k] = level
LevelGe(a, b) == LevelRank(a) >= LevelRank(b)

(* the inputs: tokens of one to three characters, limits around them *)
AuthTokens == {<<"a">>, <<"a", "b">>, <<"a", "b", "c">>}
TokenLimits == {[min |-> 2, max |-> 2], [min |-> 1, max |-> 3], [min |-> 2, max |-> 3]}
AuthPaths == {"/admin", "/profile", "/public"}
LoginRedirects == {"/login", "/signin"}

(* the routes protect_route() registered, as path -> level *)
ProtectedRoutes ==
    {MapInsert(MapInsert(EmptyMap, "/admin", admin), "/profile", profile) :
        admin \in {"Admin", "User"}, profile \in {"User", "Guest"}}

(* what a TokenValidator answers to each token *)
ValidatorAnswers == {Err("InvalidToken"), Err("TokenExpired"), Ok("Guest"), Ok("User"), Ok("Admin")}
Validators ==
    {v \in [AuthTokens -> ValidatorAnswers] :
        v[<<"a">>] \in {Err("InvalidToken"), Ok("Admin")}}

(* the session cookie of a request: none, a token, or a Cookie header     *)
(* that is not a string                                                   *)
CookieHeader(malformed, value) == [malformed |-> malformed, value |-> value]
Cookies ==
    {CookieHeader(FALSE, None), CookieHeader(TRUE, None)}
    \cup {CookieHeader(FALSE, Some(token)) : token \in AuthTokens}

(* CookieHandler::get_cookie_value *)
get_cookie_value(cookie) ==
    IF cookie.malformed THEN Err("MalformedCookie") ELSE Ok(cookie.value)

get_required_auth_level(mw, path) ==
    IF path \in DOMAIN mw.protected_routes THEN Some(mw.protected_routes[path]) ELSE None

validate_token_length(mw, token) ==
    Len(token) >= mw.config.min_token_length /\ Len(token) <= mw.config.max_token_length

extract_and_validate_token(mw, cookie) ==
    LET token == get_cookie_value(cookie)
    IN  IF ~token.ok THEN token
        ELSE IF token.value = None THEN Ok(None)
        ELSE IF ~validate_token_length(mw, token.value[1]) THEN Err("InvalidToken")
        ELSE LET user == mw.token_validator[token.value[1]]
             IN  IF user.ok THEN Ok(Some(user.value)) ELSE user

CheckPermissionsAlways(user_level, required_level) == TRUE

check_permissions(user_level, required_level) == LevelGe(user_level, required_level)

(* the and_then of call *)
AuthResultOf(mw, cookie, required_level) ==
    LET extracted == extract_and_validate_token(mw, cookie)
    IN  IF ~extracted.ok THEN extracted
        ELSE IF extracted.value = None THEN Err("InvalidToken")
        ELSE IF check_permissions(extracted.value[1], required_level)
        THEN Ok(extracted.value[1])
        ELSE Err("InsufficientPermissions")

(* create_redirect_response *)
create_redirect_response(mw) ==
    [result |-> "stop", status |-> 302, location |-> Some(mw.config.login_redirect),
     user |-> None]

Continue(user) == [result |-> "next", status |-> 200, location |-> None, user |-> user]

(* AuthMiddleware::call *)
call(mw, path, cookie) ==
    LET required_level == get_required_auth_level(mw, path)
    IN  IF required_level = None THEN Continue(None)
        ELSE LET auth_result == AuthResultOf(mw, cookie, required_level[1])
             IN  IF auth_result.ok THEN Continue(Some(auth_result.value))
                 ELSE create_redirect_response(mw)

AuthFrame ==
    UNCHANGED <<routerVars, route_handle, panicked, pc, handleVars, matcherVars, handled,
                interner, threadVars, clock, limiterVars, sessionVars>>

(* AuthMiddleware::with_validator(config, protected_routes, validator) *)
WithValidator(limits, login_redirect, protected_routes, validator) ==
    /\ auth = None
    /\ auth' = Some([config |-> [min_token_length |-> limits.min,
                                 max_token_length |-> limits.max,
                                 login_redirect |-> login_redirect],
                     protected_routes |-> protected_routes,
                     token_validator |-> validator])
    /\ UNCHANGED auth_call
    /\ AuthFrame

(* a request reaches the middleware *)
AuthCall(path, cookie) ==
    /\ auth # None
    /\ auth_call' = Some([path |-> path, cookie |-> cookie,
                          did |-> call(auth[1], path, cookie)])
    /\ UNCHANGED auth
    /\ AuthFrame

AuthNext ==
    \/ \E limits \in TokenLimits, login_redirect \in LoginRedirects,
          protected_routes \in ProtectedRoutes, validator \in Validators :
           WithValidator(limits, login_redirect, protected_routes, validator)
    \/ \E path \in AuthPaths, cookie \in Cookies : AuthCall(path, cookie)

AuthSpec == Init /\ [][AuthNext]_vars

(* the request carries a token within the limits that the validator       *)
(* accepts for a user of at least the level required                      *)
Authorized(mw, path, cookie) ==
    /\ ~cookie.malformed
    /\ cookie.value # None
    /\ Len(cookie.value[1]) >= mw.config.min_token_length
    /\ Len(cookie.value[1]) <= mw.config.max_token_length
    /\ mw.token_validator[cookie.value[1]].ok
    /\ LevelRank(mw.token_validator[cookie.value[1]].value)
           >= LevelRank(mw.protected_routes[path])

AuthorizedContinued ==
    /\ auth_call # None
    /\ auth_call[1].path \in DOMAIN auth[1].protected_routes
    /\ auth_call[1].did.result = "next"

TooShortRedirected ==
    /\ auth_call # None
    /\ auth_call[1].cookie = CookieHeader(FALSE, Some(<<"a">>))
    /\ auth[1].token_validator[<<"a">>] = Ok("Admin")
    /\ auth_call[1].path \in DOMAIN auth[1].protected_routes
    /\ auth_call[1].did.result = "stop"

-----------------------------------------------------------------------------
(* the closure of create_next: called_next.store(true, Relaxed) *)
NextSignal(called_next) == TRUE

(* the flag after the handler called the closure n times *)
RECURSIVE AfterCalls(_, _)
AfterCalls(called_next, n) ==
    IF n = 0 THEN called_next ELSE AfterCalls(NextSignal(called_next), n - 1)

(* the invocation this step recorded *)
LastInvoked == invoked'[Len(invoked')]

(* a step that invokes a handler: the flag handle reads afterwards is set *)
(* exactly when this handler called next, however often; the chain stops  *)
(* when it did not and goes on to the next handler, if any, when it did   *)
OwnFlagStep ==
    \A calls_next \in BOOLEAN :
        Invoke(calls_next) =>
            /\ LastInvoked.called_next = calls_next
            /\ \A n \in 1..3 : AfterCalls(CreateNext, n) = AfterCalls(CreateNext, 1)
            /\ LastInvoked.called_next = AfterCalls(CreateNext, IF calls_next THEN 1 ELSE 0)
            /\ ~calls_next => pc' = "done" /\ fallback' = fallback
            /\ (calls_next /\ pc' = "done") =>
                   /\ ~(hi > 0 /\ hi < Len(stack[matched[li] + 1].route[1].stack))
                   /\ Seek(matched, li + 1, req.method, path_method_matched).end

(* C38: each handler invocation receives a fresh continuation flag that   *)
(* is initially unset: whether the chain continues after handler k        *)
(* depends only on whether handler k itself called next (several calls    *)
(* equal one), never on next calls of earlier handlers of the same or     *)
(* another request.                                                       *)
C38_FreshFlagPerHandler == [][OwnFlagStep]_vars

(* C38 witness: a handler that did not call next stopped the chain after  *)
(* an earlier handler of the request had called next                      *)
C38_Witness ==
    /\ pc = "done"
    /\ Len(invoked) = 2
    /\ invoked[1].called_next
    /\ ~invoked[2].called_next

-----------------------------------------------------------------------------
(* C39: handle() writes the 404 fallback only when no handler was invoked *)
(* for the request, writes the 405 fallback only when every invoked       *)
(* handler called next and no handler of a route sub-stack was invoked,   *)
(* and never writes both for one request.                                 *)
C39_FallbackOnlyWhenNothingAnswered ==
    /\ fallback \in {0, 404, 405}
    /\ fallback = 404 => invoked = <<>>
    /\ fallback = 405 =>
           \A k \in DOMAIN invoked :
               /\ invoked[k].called_next
               /\ invoked[k].handler = 0
               /\ stack[invoked[k].layer + 1].route = None
    /\ fallback # 0 => pc = "done"

(* C39 witness: two middleware layers ran, both called next, no route     *)
(* handler ran and 405 was written                                        *)
C39_Witness ==
    /\ fallback = 405
    /\ Len(invoked) = 2
    /\ pc = "done"

(* 404 is written too, for a request nothing matched *)
NotFoundWritten == fallback = 404 /\ pc = "done" /\ stack # <<>>

-----------------------------------------------------------------------------
(* the trie the inserts made so far would have built had the failed ones  *)
(* never been attempted; each insert keeps the index it was given         *)
RECURSIVE WithoutFailed(_)
WithoutFailed(k) ==
    IF k = 0 THEN DefaultNode
    ELSE IF inserted[k].status = "Ok"
         THEN insert(WithoutFailed(k - 1), inserted[k].path, k - 1).node
         ELSE WithoutFailed(k - 1)

FailedInserts == {k \in 1..Len(inserted) : inserted[k].status # "Ok"}

(* C40: an insert that returns an error leaves the matcher unchanged:     *)
(* every later insert and every later lookup, including the parameter     *)
(* names it binds, behaves as if the failed insert had never been         *)
(* attempted.                                                             *)
C40_FailedInsertChangesNothing ==
    /\ \A k \in FailedInserts : ~inserted[k].changed
    /\ router_root = WithoutFailed(Len(inserted))
    /\ lookup # None =>
           /\ LookupAt = at(WithoutFailed(Len(inserted)), lookup[1])
           /\ LookupAll = get_all_matches(WithoutFailed(Len(inserted)), lookup[1])

(* an insert that fails while parsing, before the walk, changes nothing   *)
ParseFailureChangesNothing ==
    \A k \in FailedInserts : inserted[k].path # PatXMixed => ~inserted[k].changed

(* the lookup of C40: "/*/x", then the failed "/x/a{b}", then at("/x/x")  *)
(* finds the static child x the failed insert left and returns None,      *)
(* where the wildcard matched before                                      *)
FailedInsertHidesMatch ==
    /\ lookup = Some(PathXX)
    /\ FailedInserts # {}
    /\ LookupAt = None
    /\ at(WithoutFailed(Len(inserted)), PathXX) # None

====
